---------------------------- MODULE Spec2Model ----------------------------
(***************************************************************************)
(* Model of the two Python programs of python-rtmidi kept under src/:      *)
(*   examples/wavetablemodstep.py  class Midi and the __main__ script      *)
(*   setup.py                      the backend selection of the build      *)
(*                                 script, check_for_jack and FillTemplate *)
(***************************************************************************)
EXTENDS Integers, Sequences, FiniteSets, TLC

VARIABLES
    port,     \* rtmidi.MidiOut port of the Midi object: "none", "open", "closed"
    attr,     \* TRUE while the attribute self.midi exists
    call,     \* the Midi method being executed and its arguments
    pc,       \* position inside the method
    i,        \* next value of the xrange iterator in play_stepping
    sent,     \* messages handed to send_message (per call; whole run in the script)
    err,      \* exception that ended the call: "none" or its class name
    ncalls,   \* number of method calls made by the free caller
    main,     \* the __main__ script: its position and the parsed arguments
    cfg,      \* setup.py: platform, command line and what the machine has installed
    bs,       \* setup.py: the module-level variables of the running build script
    jk,       \* setup.py: a call of check_for_jack
    ft        \* setup.py: a FillTemplate command object

midiVars  == <<port, attr, call, pc, i, sent, err, ncalls, main>>
buildVars == <<cfg, bs, jk, ft>>
vars == <<midiVars, buildVars>>

----------------------------------------------------------------------------
(* Bounds and input domains *)

MaxCalls == 3

Notes      == {60, 200, -1}
Steps      == {-1, 0, 1, 2, 50, 200}
Velocities == {64, 200}
None       == <<>>
Some(v)    == <<v>>
RVels      == {None, Some(0), Some(130)}
Chans      == {0, 9, 16, -1}
Wavetables == {0, 5, 128, -3}

\* the values of the setup.py variables while only the example is looked at
NoProbe == [kind |-> "none", text |-> <<>>]
NoCfg   == [platform |-> "none", argv |-> <<>>, asound |-> FALSE, jack |-> FALSE,
            pthread |-> FALSE, probe |-> NoProbe]
NoBuild == [pc |-> "off", argv |-> <<>>, alsa |-> TRUE, coremidi |-> TRUE,
            jack |-> TRUE, winmm |-> TRUE, define_macros |-> <<>>,
            libraries |-> <<>>, extra_link_args |-> <<>>,
            extra_compile_args |-> <<>>, exc |-> "none"]
NoVersion == [ok |-> FALSE, version |-> <<0, 0, 0>>, prerelease |-> <<>>]
NoJack  == [pc |-> "off", define_macros |-> <<>>, libraries |-> <<>>,
            jv |-> NoVersion, exc |-> "none"]
NoFill  == [pc |-> "off", opt |-> <<>>, meta |-> <<>>, templates |-> <<>>,
            idx |-> 0, written |-> <<>>, failed |-> <<>>, exc |-> "none"]

BuildOff == cfg = NoCfg /\ bs = NoBuild /\ jk = NoJack /\ ft = NoFill

----------------------------------------------------------------------------
(* Python integer operators used by the example *)

RECURSIVE BitAndNat(_, _)
BitAndNat(a, b) ==
    IF a = 0 \/ b = 0 THEN 0
    ELSE (IF a % 2 = 1 /\ b % 2 = 1 THEN 1 ELSE 0)
         + 2 * BitAndNat(a \div 2, b \div 2)

RECURSIVE BitOrNat(_, _)
BitOrNat(a, b) ==
    IF a = 0 THEN b
    ELSE IF b = 0 THEN a
    ELSE (IF a % 2 = 1 \/ b % 2 = 1 THEN 1 ELSE 0)
         + 2 * BitOrNat(a \div 2, b \div 2)

RECURSIVE Pow2Above(_, _)
Pow2Above(n, p) == IF p > n THEN p ELSE Pow2Above(n, 2 * p)

\* a & m for a mask m >= 0; a negative int is an infinite two's complement
PyAnd(a, m) ==
    IF a >= 0 THEN BitAndNat(a, m)
    ELSE LET w == Pow2Above(IF -a > m THEN -a ELSE m, 1)
         IN  BitAndNat(w + a, m)

PyOr(a, b) == BitOrNat(a, b)

\* does xrange(start, stop, step) yield the value cur
XRangeHas(cur, stop, step) ==
    \/ step > 0 /\ cur < stop
    \/ step < 0 /\ cur > stop

----------------------------------------------------------------------------
(* class Midi *)

NOTE_ON  == 144
NOTE_OFF == 128
CTRL     == 176
CC_MOD   == 1
CC_RESET == 121
CC_WAVE  == 70

NoArgs == [name |-> "none", note |-> 0, step |-> 0, vel |-> 0,
           rvel |-> None, ch |-> 0, wt |-> 0]

PlayArgs(note, step, vel, rvel, ch) ==
    [name |-> "play_stepping", note |-> note, step |-> step, vel |-> vel,
     rvel |-> rvel, ch |-> ch, wt |-> 0]
ResetArgs(ch)   == [NoArgs EXCEPT !.name = "reset_controllers", !.ch = ch]
WaveArgs(wt, ch) == [NoArgs EXCEPT !.name = "set_wavetable", !.wt = wt, !.ch = ch]
CloseArgs       == [NoArgs EXCEPT !.name = "close"]

Finished == pc \in {"idle", "returned", "raised"}

NoteOnMsgUnmasked(c) == <<PyOr(NOTE_ON, PyAnd(c.ch, 15)), c.note, PyAnd(c.vel, 127)>>
NoteOnMsg(c)  == <<PyOr(NOTE_ON, PyAnd(c.ch, 15)), PyAnd(c.note, 127), PyAnd(c.vel, 127)>>
CtrlMsgController0(c, v) == <<PyOr(CTRL, PyAnd(c.ch, 15)), 0, v>>
CtrlMsg(c, v) == <<PyOr(CTRL, PyAnd(c.ch, 15)), CC_MOD, v>>
NoteOffMsg(c) ==
    <<PyOr(NOTE_OFF, PyAnd(c.ch, 15)), PyAnd(c.note, 127),
      PyAnd(IF c.rvel # None THEN c.rvel[1] ELSE c.vel, 127)>>
ResetMsg(c)   == <<PyOr(CTRL, PyAnd(c.ch, 15)), CC_RESET, 0>>
WaveMsg(c)    == <<PyOr(CTRL, PyAnd(c.ch, 15)), CC_WAVE, PyAnd(c.wt, 127)>>

\* self.midi.send_message(m): AttributeError once self.midi was deleted
SendThen(m, nextpc) ==
    IF attr
    THEN /\ sent' = Append(sent, m)
         /\ pc' = nextpc
         /\ err' = err
    ELSE /\ sent' = sent
         /\ pc' = "raised"
         /\ err' = "AttributeError"

PlayNoteOn ==
    /\ pc = "noteon"
    /\ SendThen(NoteOnMsg(call), "xrange")
    /\ UNCHANGED <<buildVars, port, attr, call, i, ncalls, main>>

\* xrange(0, 128, step): ValueError for step = 0
PlayXRange ==
    /\ pc = "xrange"
    /\ IF call.step = 0
       THEN /\ pc' = "raised"
            /\ err' = "ValueError"
            /\ i' = i
       ELSE /\ pc' = "loop"
            /\ err' = err
            /\ i' = 0
    /\ UNCHANGED <<buildVars, port, attr, call, sent, ncalls, main>>

PlayLoopSend ==
    /\ pc = "loop"
    /\ XRangeHas(i, 128, call.step)
    /\ SendThen(CtrlMsg(call, i), "loop")
    /\ i' = IF attr THEN i + call.step ELSE i
    /\ UNCHANGED <<buildVars, port, attr, call, ncalls, main>>

PlayLoopEnd ==
    /\ pc = "loop"
    /\ ~XRangeHas(i, 128, call.step)
    /\ pc' = "noteoff"
    /\ UNCHANGED <<buildVars, port, attr, call, i, sent, err, ncalls, main>>

PlayNoteOff ==
    /\ pc = "noteoff"
    /\ SendThen(NoteOffMsg(call), "returned")
    /\ UNCHANGED <<buildVars, port, attr, call, i, ncalls, main>>

ResetSend ==
    /\ pc = "reset"
    /\ SendThen(ResetMsg(call), "returned")
    /\ UNCHANGED <<buildVars, port, attr, call, i, ncalls, main>>

WaveSend ==
    /\ pc = "setwt"
    /\ SendThen(WaveMsg(call), "returned")
    /\ UNCHANGED <<buildVars, port, attr, call, i, ncalls, main>>

\* close() without the del statement
CloseBodyKeepsAttr ==
    IF attr
    THEN /\ port' = "closed"
         /\ attr' = attr
         /\ pc' = "returned"
         /\ err' = err
    ELSE /\ port' = port
         /\ attr' = attr
         /\ pc' = "raised"
         /\ err' = "AttributeError"

\* close(): self.midi.close_port(); del self.midi
CloseBody ==
    IF attr
    THEN /\ port' = "closed"
         /\ attr' = FALSE
         /\ pc' = "returned"
         /\ err' = err
    ELSE /\ port' = port
         /\ attr' = attr
         /\ pc' = "raised"
         /\ err' = "AttributeError"

CloseRun ==
    /\ pc = "close"
    /\ CloseBody
    /\ UNCHANGED <<buildVars, call, i, sent, ncalls, main>>

EntryPc(c) ==
    CASE c.name = "play_stepping"     -> "noteon"
      [] c.name = "reset_controllers" -> "reset"
      [] c.name = "set_wavetable"     -> "setwt"
      [] c.name = "close"             -> "close"

----------------------------------------------------------------------------
(* A caller that uses one Midi object freely, one call after the other *)

Begin(c) ==
    /\ Finished
    /\ main.pc = "off"
    /\ ncalls < MaxCalls
    /\ ncalls' = ncalls + 1
    /\ call' = c
    /\ pc' = EntryPc(c)
    /\ sent' = <<>>
    /\ err' = "none"
    /\ UNCHANGED <<buildVars, port, attr, i, main>>

CallPlay ==
    \E n \in Notes, s \in Steps, v \in Velocities, r \in RVels, c \in Chans :
        Begin(PlayArgs(n, s, v, r, c))

CallReset == \E c \in Chans : Begin(ResetArgs(c))

CallSetWavetable == \E w \in Wavetables, c \in Chans : Begin(WaveArgs(w, c))

CallClose == Begin(CloseArgs)

NoMain == [pc |-> "off", channel |-> 0, wavetable |-> None, note |-> 0]

\* the state after Midi(port): MidiOut created and open_port done
InitMidi ==
    /\ port = "open"
    /\ attr = TRUE
    /\ call = NoArgs
    /\ pc = "idle"
    /\ i = 0
    /\ sent = <<>>
    /\ err = "none"
    /\ ncalls = 0
    /\ main = NoMain
    /\ BuildOff

NextMidi ==
    \/ CallPlay
    \/ CallReset
    \/ CallSetWavetable
    \/ CallClose
    \/ PlayNoteOn
    \/ PlayXRange
    \/ PlayLoopSend
    \/ PlayLoopEnd
    \/ PlayNoteOff
    \/ ResetSend
    \/ WaveSend
    \/ CloseRun

SpecMidi == InitMidi /\ [][NextMidi]_vars

----------------------------------------------------------------------------
(* The __main__ script of wavetablemodstep.py *)

DefaultChannel == 0
DefaultNote    == 60
DefaultVel     == 64
ScriptStep     == 2

ScriptChannels   == {DefaultChannel} \cup (1 .. 16)
ScriptNotes      == {DefaultNote, 200}
ScriptWavetables == {None, Some(0), Some(1), Some(6), Some(130)}

\* the truth value of an optional int: None and 0 are false
Truthy(w) == IF w = None THEN FALSE ELSE w[1] # 0

\* a statement of the script runs once the statement before it has returned;
\* an exception that escapes a call ends the script
Ready(at) == main.pc = at /\ pc \in {"idle", "returned"}

\* a call made by the script: the messages of the whole run stay in sent
Invoke(c, nextmain) ==
    /\ call' = c
    /\ pc' = EntryPc(c)
    /\ main' = [main EXCEPT !.pc = nextmain]
    /\ UNCHANGED <<buildVars, port, attr, i, sent, err, ncalls>>

\* m = Midi(args.device)
MainConstruct ==
    /\ Ready("start")
    /\ port' = "open"
    /\ attr' = TRUE
    /\ main' = [main EXCEPT !.pc = "wavetable"]
    /\ UNCHANGED <<buildVars, call, pc, i, sent, err, ncalls>>

\* if args.wavetable: m.set_wavetable(args.wavetable-1, ch=args.channel-1)
MainWavetable ==
    /\ Ready("wavetable")
    /\ Truthy(main.wavetable)
    /\ Invoke(WaveArgs(main.wavetable[1] - 1, main.channel - 1), "reset1")

MainNoWavetable ==
    /\ Ready("wavetable")
    /\ ~Truthy(main.wavetable)
    /\ main' = [main EXCEPT !.pc = "reset1"]
    /\ UNCHANGED <<buildVars, port, attr, call, pc, i, sent, err, ncalls>>

MainReset1 ==
    /\ Ready("reset1")
    /\ Invoke(ResetArgs(main.channel - 1), "play")

MainPlay ==
    /\ Ready("play")
    /\ Invoke(PlayArgs(main.note, ScriptStep, DefaultVel, None, main.channel - 1),
              "reset2")

MainReset2 ==
    /\ Ready("reset2")
    /\ Invoke(ResetArgs(main.channel - 1), "close")

MainClose ==
    /\ Ready("close")
    /\ Invoke(CloseArgs, "end")

InitScript ==
    /\ port = "none"
    /\ attr = FALSE
    /\ call = NoArgs
    /\ pc = "idle"
    /\ i = 0
    /\ sent = <<>>
    /\ err = "none"
    /\ ncalls = 0
    /\ main \in [pc : {"start"}, channel : ScriptChannels,
                 wavetable : ScriptWavetables, note : ScriptNotes]
    /\ BuildOff

NextScript ==
    \/ MainConstruct
    \/ MainWavetable
    \/ MainNoWavetable
    \/ MainReset1
    \/ MainPlay
    \/ MainReset2
    \/ MainClose
    \/ PlayNoteOn
    \/ PlayXRange
    \/ PlayLoopSend
    \/ PlayLoopEnd
    \/ PlayNoteOff
    \/ ResetSend
    \/ WaveSend
    \/ CloseRun

SpecScript == InitScript /\ [][NextScript]_vars

----------------------------------------------------------------------------
(* setup.py: helpers for Python lists and strings *)

\* the example is not running while the build script is looked at
MidiOff ==
    /\ port = "none"
    /\ attr = FALSE
    /\ call = NoArgs
    /\ pc = "idle"
    /\ i = 0
    /\ sent = <<>>
    /\ err = "none"
    /\ ncalls = 0
    /\ main = NoMain

ToSet(s) == {s[k] : k \in DOMAIN s}

\* x in s
Contains(s, x) == \E k \in DOMAIN s : s[k] = x

\* s.remove(x): drops the first occurrence of x
RemoveFirst(s, x) ==
    LET at == CHOOSE k \in DOMAIN s : s[k] = x /\ \A j \in 1 .. k - 1 : s[j] # x
    IN  SubSeq(s, 1, at - 1) \o SubSeq(s, at + 1, Len(s))

RECURSIVE SeqsUpTo(_, _)
SeqsUpTo(S, n) ==
    IF n = 0 THEN {<<>>}
    ELSE LET shorter == SeqsUpTo(S, n - 1)
         IN  shorter \cup {Append(t, x) : t \in shorter, x \in S}

----------------------------------------------------------------------------
(* setup.py: distutils.version.StrictVersion on the output of pkg-config *)

\* the text is a sequence of tokens: a run of digits, '.', 'a', 'b', any other
\* text, or the newline that ends the output
Num(n) == <<"num", n>>
Dot    == <<"dot", 0>>
LetA   == <<"a", 0>>
LetB   == <<"b", 0>>
Junk   == <<"junk", 0>>
NL     == <<"nl", 0>>

\* StrictVersion(text): N.N[.N][{a|b}N], '$' also matches before a last newline
StrictVersionParse(t) ==
    LET core   == IF Len(t) > 0 /\ t[Len(t)] = NL THEN SubSeq(t, 1, Len(t) - 1) ELSE t
        m      == Len(core)
        hasPre == /\ m >= 2
                  /\ core[m - 1] \in {LetA, LetB}
                  /\ core[m][1] = "num"
        base   == IF hasPre THEN SubSeq(core, 1, m - 2) ELSE core
        okBase == /\ Len(base) \in {3, 5}
                  /\ \A k \in DOMAIN base :
                        IF k % 2 = 1 THEN base[k][1] = "num" ELSE base[k] = Dot
    IN  IF okBase
        THEN [ok |-> TRUE,
              version |-> <<base[1][2], base[3][2],
                            IF Len(base) = 5 THEN base[5][2] ELSE 0>>,
              prerelease |-> IF hasPre THEN <<core[m - 1][1], core[m][2]>> ELSE <<>>]
        ELSE NoVersion

\* tuple comparison of Python: -1, 0 or 1
TupleCmp(a, b) ==
    IF a = b THEN 0
    ELSE LET k == CHOOSE n \in 1 .. 3 : a[n] # b[n] /\ \A j \in 1 .. n - 1 : a[j] = b[j]
         IN  IF a[k] < b[k] THEN -1 ELSE 1

\* ('a', n) against ('b', m): the letter first, then the number
PreCmp(p, q) ==
    IF p = q THEN 0
    ELSE IF p[1] # q[1] THEN (IF p[1] = "a" THEN -1 ELSE 1)
    ELSE IF p[2] < q[2] THEN -1 ELSE 1

\* StrictVersion._cmp
VersionCmp(v, w) ==
    IF v.version # w.version THEN TupleCmp(v.version, w.version)
    ELSE IF v.prerelease = <<>> /\ w.prerelease = <<>> THEN 0
    ELSE IF v.prerelease # <<>> /\ w.prerelease = <<>> THEN -1
    ELSE IF v.prerelease = <<>> /\ w.prerelease # <<>> THEN 1
    ELSE PreCmp(v.prerelease, w.prerelease)

\* '>' where the script has '>='
VersionGEStrict(v, w) == VersionCmp(v, w) > 0

VersionGE(v, w) == VersionCmp(v, w) >= 0

JACK1_MIN_VERSION == StrictVersionParse(<<Num(0), Dot, Num(125), Dot, Num(0)>>)
JACK2_MIN_VERSION == StrictVersionParse(<<Num(1), Dot, Num(9), Dot, Num(11)>>)

----------------------------------------------------------------------------
(* setup.py: check_for_jack(define_macros, libraries) *)

JStart(dm, libs) ==
    [pc |-> "find", define_macros |-> dm, libraries |-> libs,
     jv |-> NoVersion, exc |-> "none"]

\* if find_library('jack'): define_macros.append(('__UNIX_JACK__', None))
JFind(j, c) ==
    IF c.jack
    THEN [j EXCEPT !.define_macros = Append(@, "__UNIX_JACK__"), !.pc = "probe"]
    ELSE [j EXCEPT !.pc = "done"]

\* the try block: pkg-config --modversion jack, decode, StrictVersion
JProbe(j, c) ==
    CASE c.probe.kind = "OSError" ->
             [j EXCEPT !.pc = "crash", !.exc = "OSError"]
      [] c.probe.kind \in {"CalledProcessError", "UnicodeError"} ->
             [j EXCEPT !.pc = "append"]
      [] c.probe.kind = "output" ->
             LET v == StrictVersionParse(c.probe.text)
             IN  IF v.ok THEN [j EXCEPT !.jv = v, !.pc = "compare"]
                 ELSE [j EXCEPT !.pc = "append"]

\* the else block of the try
JCompare(j) ==
    IF \/ j.jv.version[1] = 0 /\ VersionGE(j.jv, JACK1_MIN_VERSION)
       \/ j.jv.version[1] = 1 /\ VersionGE(j.jv, JACK2_MIN_VERSION)
    THEN [j EXCEPT !.define_macros = Append(@, "JACK_HAS_PORT_RENAME"),
                   !.pc = "append"]
    ELSE [j EXCEPT !.pc = "append"]

\* libraries.append('jack')
JAppend(j) == [j EXCEPT !.libraries = Append(@, "jack"), !.pc = "done"]

JStep(j, c) ==
    CASE j.pc = "find"    -> JFind(j, c)
      [] j.pc = "probe"   -> JProbe(j, c)
      [] j.pc = "compare" -> JCompare(j)
      [] j.pc = "append"  -> JAppend(j)

RECURSIVE JRun(_, _)
JRun(j, c) == IF j.pc \in {"done", "crash"} THEN j ELSE JRun(JStep(j, c), c)

\* the whole call, as the build script makes it
CheckForJack(dm, libs, c) == JRun(JStart(dm, libs), c)

JackFind ==
    /\ jk.pc = "find"
    /\ jk' = JFind(jk, cfg)
    /\ UNCHANGED <<midiVars, cfg, bs, ft>>

JackProbe ==
    /\ jk.pc = "probe"
    /\ jk' = JProbe(jk, cfg)
    /\ UNCHANGED <<midiVars, cfg, bs, ft>>

JackCompare ==
    /\ jk.pc = "compare"
    /\ jk' = JCompare(jk)
    /\ UNCHANGED <<midiVars, cfg, bs, ft>>

JackAppend ==
    /\ jk.pc = "append"
    /\ jk' = JAppend(jk)
    /\ UNCHANGED <<midiVars, cfg, bs, ft>>

\* what pkg-config can answer
VMajors  == {0, 1, 2}
VMinors  == {9, 10, 124, 125, 126}
VPatches == {0, 10, 11, 12}
VSuffix  == {<<>>, <<LetA, Num(1)>>, <<LetB, Num(2)>>, <<Junk>>, <<LetA>>}
VEnds    == {<<>>, <<NL>>, <<NL, NL>>}

VersionTexts ==
    {<<Num(a), Dot, Num(b), Dot, Num(c)>> \o s \o e :
        a \in VMajors, b \in VMinors, c \in VPatches, s \in VSuffix, e \in VEnds}
    \cup {<<Num(a), Dot, Num(b)>> \o s \o e :
        a \in VMajors, b \in VMinors, s \in VSuffix, e \in VEnds}
    \cup {<<>>, <<NL>>, <<Num(1)>>, <<Junk, NL>>,
          <<Num(1), Dot, Num(9), Dot, Num(12), Dot, Num(1)>>,
          <<Num(1), Dot, Dot, Num(9)>>}

ProbeFailures ==
    {[kind |-> k, text |-> <<>>] : k \in {"OSError", "CalledProcessError", "UnicodeError"}}

JackProbes == ProbeFailures \cup {[kind |-> "output", text |-> t] : t \in VersionTexts}

JackMacroLists == {<<>>, <<"__RTMIDI_SILENCE_WARNINGS__">>,
                   <<"__RTMIDI_SILENCE_WARNINGS__", "__LINUX_ALSA__">>}
JackLibLists   == {<<>>, <<"asound">>}

InitJack ==
    /\ MidiOff
    /\ bs = NoBuild
    /\ ft = NoFill
    /\ \E found \in BOOLEAN, p \in JackProbes :
          cfg = [NoCfg EXCEPT !.jack = found, !.probe = p]
    /\ \E dm \in JackMacroLists, libs \in JackLibLists : jk = JStart(dm, libs)

NextJack ==
    \/ JackFind
    \/ JackProbe
    \/ JackCompare
    \/ JackAppend

SpecJack == InitJack /\ [][NextJack]_vars

----------------------------------------------------------------------------
(* setup.py: the module-level code from "define_macros = []" to setup() *)

MaxArgs == 2

\* sys.argv without the script name
Args == {"--no-alsa", "--no-coremidi", "--no-jack", "--no-winmm",
         "--no-suppress-warnings", "build"}
Platforms == {"linux", "darwin", "win", "other"}

\* if SWITCH in sys.argv: FLAG = False; sys.argv.remove(SWITCH)
StripSwitch(b, switch, flag) ==
    IF Contains(b.argv, switch)
    THEN [b EXCEPT ![flag] = FALSE, !.argv = RemoveFirst(@, switch)]
    ELSE b

BNoAlsa(b)     == [StripSwitch(b, "--no-alsa", "alsa") EXCEPT !.pc = "no-coremidi"]
BNoCoremidi(b) == [StripSwitch(b, "--no-coremidi", "coremidi") EXCEPT !.pc = "no-jack"]
BNoJack(b)     == [StripSwitch(b, "--no-jack", "jack") EXCEPT !.pc = "no-winmm"]
BNoWinmm(b)    == [StripSwitch(b, "--no-winmm", "winmm") EXCEPT !.pc = "warnings"]

BWarnings(b) ==
    IF ~Contains(b.argv, "--no-suppress-warnings")
    THEN [b EXCEPT !.define_macros = Append(@, "__RTMIDI_SILENCE_WARNINGS__"),
                   !.pc = "platform"]
    ELSE [b EXCEPT !.argv = RemoveFirst(@, "--no-suppress-warnings"),
                   !.pc = "platform"]

\* if jack: check_for_jack(define_macros, libraries)
BJack(b, c, nextpc) ==
    IF b.jack
    THEN LET r == CheckForJack(b.define_macros, b.libraries, c)
         IN  [b EXCEPT !.define_macros = r.define_macros,
                       !.libraries = r.libraries,
                       !.exc = r.exc,
                       !.pc = IF r.pc = "crash" THEN "crash" ELSE nextpc]
    ELSE [b EXCEPT !.pc = nextpc]

BLinuxAlsa(b, c) ==
    IF b.alsa /\ c.asound
    THEN [b EXCEPT !.define_macros = Append(@, "__LINUX_ALSA__"),
                   !.libraries = Append(@, "asound"),
                   !.pc = "linux-jack"]
    ELSE [b EXCEPT !.pc = "linux-jack"]

BLinuxJack(b, c) == BJack(b, c, "linux-pthread")

BLinuxPthread(b, c) ==
    IF ~c.pthread
    THEN [b EXCEPT !.pc = "exit", !.exc = "SystemExit"]
    ELSE [b EXCEPT !.libraries = Append(@, "pthread"), !.pc = "setup"]

BDarwinJack(b, c) == BJack(b, c, "darwin-coremidi")

BDarwinCoremidi(b) ==
    IF b.coremidi
    THEN [b EXCEPT !.define_macros = Append(@, "__MACOSX_CORE__"),
                   !.extra_compile_args = Append(@, "-frtti"),
                   !.extra_link_args = @ \o <<"-framework", "CoreAudio",
                                             "-framework", "CoreMIDI",
                                             "-framework", "CoreFoundation">>,
                   !.pc = "setup"]
    ELSE [b EXCEPT !.pc = "setup"]

BWin(b) ==
    LET w == [b EXCEPT !.extra_compile_args = Append(@, "/EHsc"), !.pc = "setup"]
    IN  IF b.winmm
        THEN [w EXCEPT !.define_macros = Append(@, "__WINDOWS_MM__"),
                       !.libraries = Append(@, "winmm")]
        ELSE w

\* the else branch only prints a warning
BOther(b) == [b EXCEPT !.pc = "setup"]

BPlatform(b, c) ==
    CASE c.platform = "linux"  -> BLinuxAlsa(b, c)
      [] c.platform = "darwin" -> BDarwinJack(b, c)
      [] c.platform = "win"    -> BWin(b)
      [] OTHER                 -> BOther(b)

BEnded(b) == b.pc \in {"setup", "exit", "crash"}

BStep(b, c) ==
    CASE b.pc = "no-alsa"         -> BNoAlsa(b)
      [] b.pc = "no-coremidi"     -> BNoCoremidi(b)
      [] b.pc = "no-jack"         -> BNoJack(b)
      [] b.pc = "no-winmm"        -> BNoWinmm(b)
      [] b.pc = "warnings"        -> BWarnings(b)
      [] b.pc = "platform"        -> BPlatform(b, c)
      [] b.pc = "linux-jack"      -> BLinuxJack(b, c)
      [] b.pc = "linux-pthread"   -> BLinuxPthread(b, c)
      [] b.pc = "darwin-coremidi" -> BDarwinCoremidi(b)

\* the variables after "alsa = coremidi = jack = winmm = True"
BStart(argv) == [NoBuild EXCEPT !.pc = "no-alsa", !.argv = argv]

RECURSIVE BRun(_, _)
BRun(b, c) == IF BEnded(b) THEN b ELSE BRun(BStep(b, c), c)

BuildStep(next) ==
    /\ bs' = next
    /\ UNCHANGED <<midiVars, cfg, jk, ft>>

SwitchNoAlsa ==
    /\ bs.pc = "no-alsa"
    /\ BuildStep(BNoAlsa(bs))

SwitchNoCoremidi ==
    /\ bs.pc = "no-coremidi"
    /\ BuildStep(BNoCoremidi(bs))

SwitchNoJack ==
    /\ bs.pc = "no-jack"
    /\ BuildStep(BNoJack(bs))

SwitchNoWinmm ==
    /\ bs.pc = "no-winmm"
    /\ BuildStep(BNoWinmm(bs))

SwitchWarnings ==
    /\ bs.pc = "warnings"
    /\ BuildStep(BWarnings(bs))

LinuxAlsa ==
    /\ bs.pc = "platform"
    /\ cfg.platform = "linux"
    /\ BuildStep(BLinuxAlsa(bs, cfg))

LinuxJack ==
    /\ bs.pc = "linux-jack"
    /\ BuildStep(BLinuxJack(bs, cfg))

LinuxPthread ==
    /\ bs.pc = "linux-pthread"
    /\ BuildStep(BLinuxPthread(bs, cfg))

DarwinJack ==
    /\ bs.pc = "platform"
    /\ cfg.platform = "darwin"
    /\ BuildStep(BDarwinJack(bs, cfg))

DarwinCoremidi ==
    /\ bs.pc = "darwin-coremidi"
    /\ BuildStep(BDarwinCoremidi(bs))

WinWinmm ==
    /\ bs.pc = "platform"
    /\ cfg.platform = "win"
    /\ BuildStep(BWin(bs))

OtherPlatform ==
    /\ bs.pc = "platform"
    /\ cfg.platform \notin {"linux", "darwin", "win"}
    /\ BuildStep(BOther(bs))

SetupProbes ==
    ProbeFailures \cup
    {[kind |-> "output", text |-> t] :
        t \in {<<Num(1), Dot, Num(9), Dot, Num(12), NL>>,
               <<Num(1), Dot, Num(9), Dot, Num(10), NL>>,
               <<Num(0), Dot, Num(125), Dot, Num(0), NL>>}}

InitSetup ==
    /\ MidiOff
    /\ jk = NoJack
    /\ ft = NoFill
    /\ cfg \in [platform : Platforms, argv : SeqsUpTo(Args, MaxArgs),
                asound : BOOLEAN, jack : BOOLEAN, pthread : BOOLEAN,
                probe : SetupProbes]
    /\ bs = BStart(cfg.argv)

NextSetup ==
    \/ SwitchNoAlsa
    \/ SwitchNoCoremidi
    \/ SwitchNoJack
    \/ SwitchNoWinmm
    \/ SwitchWarnings
    \/ LinuxAlsa
    \/ LinuxJack
    \/ LinuxPthread
    \/ DarwinJack
    \/ DarwinCoremidi
    \/ WinWinmm
    \/ OtherPlatform

SpecSetup == InitSetup /\ [][NextSetup]_vars

----------------------------------------------------------------------------
(* setup.py: class FillTemplate *)

MaxStemLen == 2

\* a file name is a sequence of characters
Alphabet     == {".", "i", "n", "g"}
TEMPLATE_EXT == <<".", "i", "n">>
Endings      == {<<>>, <<".", "i", "n">>, <<".", "i">>, <<"i", "n">>,
                 <<".", "i", "n", ".">>}
Names        == {stem \o e : stem \in SeqsUpTo(Alphabet, MaxStemLen), e \in Endings}

\* s.endswith(suffix)
EndsWith(s, suffix) ==
    /\ Len(s) >= Len(suffix)
    /\ SubSeq(s, Len(s) - Len(suffix) + 1, Len(s)) = suffix

\* s.rstrip(chars): drops every trailing character that occurs in chars
RECURSIVE RStrip(_, _)
RStrip(s, chars) ==
    IF s # <<>> /\ s[Len(s)] \in ToSet(chars)
    THEN RStrip(SubSeq(s, 1, Len(s) - 1), chars)
    ELSE s

\* finalize_options: the option (split by split_quoted) plus the templates of
\* the distribution metadata; ValueError for a name without the extension
FtFinalize(f) ==
    LET all == f.opt \o f.meta
    IN  IF \E k \in DOMAIN all : ~EndsWith(all[k], TEMPLATE_EXT)
        THEN [f EXCEPT !.templates = all, !.pc = "raised", !.exc = "ValueError"]
        ELSE [f EXCEPT !.templates = all, !.pc = "run", !.idx = 1]

\* one round of the loop of run: any exception (the template cannot be read,
\* the output cannot be opened) is logged and the loop goes on
FtRunOne(f, readable) ==
    LET infilename  == f.templates[f.idx]
        outfilename == RStrip(infilename, TEMPLATE_EXT)
    IN  IF readable /\ outfilename # <<>>
        THEN [f EXCEPT !.written = Append(@, <<infilename, outfilename>>),
                       !.idx = @ + 1]
        ELSE [f EXCEPT !.failed = Append(@, infilename), !.idx = @ + 1]

FillFinalize ==
    /\ ft.pc = "finalize"
    /\ ft' = FtFinalize(ft)
    /\ UNCHANGED <<midiVars, cfg, bs, jk>>

FillRunOne ==
    /\ ft.pc = "run"
    /\ ft.idx <= Len(ft.templates)
    /\ \E readable \in BOOLEAN : ft' = FtRunOne(ft, readable)
    /\ UNCHANGED <<midiVars, cfg, bs, jk>>

FillRunEnd ==
    /\ ft.pc = "run"
    /\ ft.idx > Len(ft.templates)
    /\ ft' = [ft EXCEPT !.pc = "done"]
    /\ UNCHANGED <<midiVars, cfg, bs, jk>>

InitFill ==
    /\ MidiOff
    /\ cfg = NoCfg
    /\ bs = NoBuild
    /\ jk = NoJack
    /\ \E o \in SeqsUpTo(Names, 1), m \in SeqsUpTo(Names, 1) :
          ft = [NoFill EXCEPT !.pc = "finalize", !.opt = o, !.meta = m]

NextFill ==
    \/ FillFinalize
    \/ FillRunOne
    \/ FillRunEnd

SpecFill == InitFill /\ [][NextFill]_vars

----------------------------------------------------------------------------
(* Claims about class Midi and the script *)

IsPrefix(s, t) == Len(s) <= Len(t) /\ \A k \in 1 .. Len(s) : s[k] = t[k]

\* number of values of 0, step, 2*step, ... below 128, for step >= 1
StepCount(step) == (127 \div step) + 1

ExpectedPlay(c) ==
    [k \in 1 .. StepCount(c.step) + 2 |->
        IF k = 1 THEN <<144 + (c.ch % 16), c.note % 128, c.vel % 128>>
        ELSE IF k = StepCount(c.step) + 2
        THEN <<128 + (c.ch % 16), c.note % 128,
               (IF c.rvel = None THEN c.vel ELSE c.rvel[1]) % 128>>
        ELSE <<176 + (c.ch % 16), 1, (k - 2) * c.step>>]

OpenPlay == call.name = "play_stepping" /\ port = "open"

C2_MessagesMasked ==
    (call.name \in {"play_stepping", "reset_controllers", "set_wavetable"}
     /\ main.pc = "off" /\ (call.name = "play_stepping" => call.step >= 1)) =>
        /\ port = "open" => pc # "raised"
        /\ \A k \in DOMAIN sent :
            LET m == sent[k] IN
            /\ Len(m) = 3
            /\ m[1] \in {128 + (call.ch % 16), 144 + (call.ch % 16),
                         176 + (call.ch % 16)}
            /\ m[2] \in 0 .. 127
            /\ m[3] \in 0 .. 127
            /\ m[1] < 176 => m[2] = call.note % 128
            /\ (m[1] >= 144 /\ m[1] < 176) => m[3] = call.vel % 128
            /\ m[1] < 144 =>
                   m[3] = (IF call.rvel = None THEN call.vel ELSE call.rvel[1]) % 128
            /\ call.name = "set_wavetable" => m[2] = 70 /\ m[3] = call.wt % 128
            /\ call.name = "reset_controllers" => m[2] = 121 /\ m[3] = 0

C2_Witness ==
    /\ OpenPlay
    /\ call.note = 200
    /\ call.ch = 16
    /\ call.rvel = Some(130)
    /\ call.step = 50
    /\ pc = "returned"
    /\ sent[1] = <<144, 72, call.vel % 128>>
    /\ sent[Len(sent)] = <<128, 72, 2>>

\* C6: every message of a run of the script carries, in the low nibble of its
\* status byte, the 1-based channel of the command line minus one.
C6_ChannelConverted ==
    main.pc # "off" =>
        \A k \in DOMAIN sent : sent[k][1] % 16 = main.channel - 1

\* C7: once close() has returned, every later play_stepping, reset_controllers
\* and set_wavetable call hands no message to the port and ends with an
\* error; a call has sent messages only while the port is open.
C7_ClosedRejects ==
    /\ sent # <<>> => port = "open"
    /\ (port = "closed"
        /\ call.name \in {"play_stepping", "reset_controllers", "set_wavetable"}) =>
            /\ sent = <<>>
            /\ pc # "returned"
            /\ pc = "raised" => err = "AttributeError"

C7_Witness ==
    /\ port = "closed"
    /\ call.name = "play_stepping"
    /\ pc = "raised"
    /\ err = "AttributeError"
    /\ sent = <<>>

IsNoteOn(m)  == m[1] \div 16 = 9
IsNoteOff(m) == m[1] \div 16 = 8

\* C9: when a play_stepping call on an open port has ended, normally or with
\* an exception, every Note On it sent is followed by a Note Off for the same
\* note and channel, for every value of step.
C9_NoteOffFollows ==
    (OpenPlay /\ pc \in {"returned", "raised"}) =>
        \A k \in DOMAIN sent :
            IsNoteOn(sent[k]) =>
                \E j \in DOMAIN sent :
                    /\ j > k
                    /\ IsNoteOff(sent[j])
                    /\ sent[j][2] = sent[k][2]
                    /\ sent[j][1] % 16 = sent[k][1] % 16

----------------------------------------------------------------------------
(* Claims about setup.py *)

Detected(c) == c.probe.kind = "output" /\ StrictVersionParse(c.probe.text).ok

\* a JACK1 version (major 0) that is at least 0.125.0
Jack1Recent(v) ==
    /\ v.version[1] = 0
    /\ \/ v.version[2] > 125
       \/ v.version[2] = 125 /\ (v.version[3] > 0 \/ v.prerelease = <<>>)

\* a JACK2 version (major 1) that is at least 1.9.11
Jack2Recent(v) ==
    /\ v.version[1] = 1
    /\ \/ v.version[2] > 9
       \/ v.version[2] = 9 /\ v.version[3] > 11
       \/ v.version[2] = 9 /\ v.version[3] = 11 /\ v.prerelease = <<>>

\* C3: when check_for_jack has ended, JACK_HAS_PORT_RENAME is defined if and
\* only if the jack library was found and a version was detected that is a
\* JACK1 version >= 0.125.0 or a JACK2 version >= 1.9.11; for every detected
\* version __UNIX_JACK__ is defined, and it is defined only if the library
\* was found.
C3_RenameIffRecent ==
    jk.pc \in {"done", "crash"} =>
        LET v == StrictVersionParse(cfg.probe.text) IN
        /\ Contains(jk.define_macros, "JACK_HAS_PORT_RENAME")
             <=> (cfg.jack /\ Detected(cfg) /\ (Jack1Recent(v) \/ Jack2Recent(v)))
        /\ (cfg.jack /\ Detected(cfg)) => Contains(jk.define_macros, "__UNIX_JACK__")
        /\ Contains(jk.define_macros, "__UNIX_JACK__") => cfg.jack

C3_Witness ==
    /\ jk.pc = "done"
    /\ cfg.jack
    /\ cfg.probe.text = <<Num(1), Dot, Num(9), Dot, Num(11), NL>>
    /\ jk.define_macros[Len(jk.define_macros)] = "JACK_HAS_PORT_RENAME"
    /\ jk.libraries[Len(jk.libraries)] = "jack"

\* C8: when the jack library is found and the version probe fails in any way,
\* check_for_jack returns normally with __UNIX_JACK__ defined, 'jack' among
\* the libraries and JACK_HAS_PORT_RENAME not defined.
C8_ProbeFailureTolerated ==
    (jk.pc \in {"done", "crash"} /\ cfg.jack /\ ~Detected(cfg)) =>
        /\ jk.pc = "done"
        /\ Contains(jk.define_macros, "__UNIX_JACK__")
        /\ Contains(jk.libraries, "jack")
        /\ ~Contains(jk.define_macros, "JACK_HAS_PORT_RENAME")

BackendMacroNames == {"__LINUX_ALSA__", "__UNIX_JACK__", "__MACOSX_CORE__", "__WINDOWS_MM__"}

PlatformBackends(pf) ==
    CASE pf = "linux"  -> {"__LINUX_ALSA__", "__UNIX_JACK__"}
      [] pf = "darwin" -> {"__MACOSX_CORE__", "__UNIX_JACK__"}
      [] pf = "win"    -> {"__WINDOWS_MM__"}
      [] OTHER         -> {}

DisableSwitches == {"--no-alsa", "--no-coremidi", "--no-jack", "--no-winmm"}

DefinedBackends(b) == ToSet(b.define_macros) \cap BackendMacroNames

\* C4: the backend macros defined by the build script are always among those
\* of the platform, and when the script has ended with no disabling switch
\* given and every library present, every backend of the platform is defined.
C4_PlatformBackends ==
    /\ DefinedBackends(bs) \subseteq PlatformBackends(cfg.platform)
    /\ (/\ BEnded(bs)
        /\ ToSet(cfg.argv) \cap DisableSwitches = {}
        /\ cfg.asound /\ cfg.jack /\ cfg.pthread)
       => PlatformBackends(cfg.platform) \subseteq DefinedBackends(bs)

OwnMacros(switch) ==
    CASE switch = "--no-alsa"     -> {"__LINUX_ALSA__"}
      [] switch = "--no-jack"     -> {"__UNIX_JACK__", "JACK_HAS_PORT_RENAME"}
      [] switch = "--no-coremidi" -> {"__MACOSX_CORE__"}
      [] switch = "--no-winmm"    -> {"__WINDOWS_MM__"}

OwnLibraries(switch) ==
    CASE switch = "--no-alsa"     -> {"asound"}
      [] switch = "--no-jack"     -> {"jack"}
      [] switch = "--no-coremidi" -> {"CoreAudio", "CoreMIDI", "CoreFoundation"}
      [] switch = "--no-winmm"    -> {"winmm"}

Without(s, x) == SelectSeq(s, LAMBDA e : e # x)

OtherMacros(b, switch) ==
    (ToSet(b.define_macros) \cap (BackendMacroNames \cup {"JACK_HAS_PORT_RENAME"}))
        \ OwnMacros(switch)

\* C5: when the script has ended and a disable switch was on the command line,
\* the macros and libraries of its backend are not defined, the switch is no
\* longer in sys.argv when setup() is reached, and the macros of the other
\* backends are those of the run on the same machine without the switch.
C5_SwitchRemovesOwnBackend ==
    BEnded(bs) =>
        \A switch \in DisableSwitches \cap ToSet(cfg.argv) :
            /\ ToSet(bs.define_macros) \cap OwnMacros(switch) = {}
            /\ (ToSet(bs.libraries) \cup ToSet(bs.extra_link_args))
                   \cap OwnLibraries(switch) = {}
            /\ bs.pc = "setup" => ~Contains(bs.argv, switch)
            /\ OtherMacros(bs, switch)
                   = OtherMacros(BRun(BStart(Without(cfg.argv, switch)), cfg), switch)

HasExtension(name) ==
    /\ Len(name) >= 3
    /\ name[Len(name) - 2] = "."
    /\ name[Len(name) - 1] = "i"
    /\ name[Len(name)] = "n"

\* C10: every file FillTemplate.run writes is named like its template with
\* exactly the trailing '.in' removed, and when a template name does not end
\* with '.in' finalize_options raises ValueError and nothing is written.
C10_OutputNameDropsExtension ==
    /\ \A k \in DOMAIN ft.written :
          LET infilename  == ft.written[k][1]
              outfilename == ft.written[k][2]
          IN  /\ HasExtension(infilename)
              /\ outfilename = SubSeq(infilename, 1, Len(infilename) - 3)
    /\ (\E k \in DOMAIN ft.templates : ~HasExtension(ft.templates[k])) =>
          /\ ft.pc = "raised"
          /\ ft.exc = "ValueError"
          /\ ft.written = <<>>

=============================================================================
